---- MODULE Spec2Model ----
(***************************************************************************)
(* A model of the Personal-Assistant repository:                           *)
(*   - the terminal tool run_command (servers/server__v2.py and            *)
(*     servers/build/lib/server_stdio.py, same code),                      *)
(*   - the Gmail adapter GmailTool and the MCP tools registered over it    *)
(*     (servers/server__v2.py),                                            *)
(*   - the client turn loop run_agent                                      *)
(*     (clients/mcp-client/langchain_mcp_client_stdio.py).                 *)
(* Text is a sequence of strings, one per character or per fixed piece     *)
(* ("Error: "); a Python value that is a str is                            *)
(* [type |-> "str", val |-> text].                                         *)
(***************************************************************************)
EXTENDS Integers, Sequences, FiniteSets, TLC

VARIABLES
    \* ---- terminal tool ----
    cmd_command,    \* the command string of the last run_command call
    cmd_proc,       \* what subprocess.run did on that call
    cmd_result,     \* what run_command did: a returned value or a raised exception
    \* ---- client turn loop ----
    chat_messages,          \* memory.chat_memory.messages
    moving_summary_buffer,  \* memory.moving_summary_buffer
    client_query,           \* the query of the last turn
    client_past,            \* past_messages of the last turn
    client_submitted,       \* the "messages" list given to agent.ainvoke on the last turn
    client_turns,           \* queries submitted to the agent
    client_pc,              \* "loop" at input(), "await" in agent.ainvoke, "done" after
                            \* quit, "raised" after an exception left run_agent
    \* ---- GmailTool._get_body ----
    body_payload,   \* the payload of the last _get_body call
    body_result,    \* the body it returned
    \* ---- Gmail adapter and tools (server__v2) ----
    service,        \* gmail.service: None until auth() built the API handle
    auth_log,       \* how each auth() call so far ended, "ok" or "raise"
    ops_unauth,     \* adapter operations entered while service was None
    gmail_ops,      \* Gmail tool invocations so far
    mbox_messages,  \* the mailbox: the messages, newest first
    mbox_labels,    \* the mailbox: the labels, as labels.list returns them
    api_log,        \* the API calls the last tool invocation issued, in order
    tool_result,    \* the last tool invocation: tool, arguments, outcomes
    last_sent       \* the arguments and the id of the last message sent

cmdVars == <<cmd_command, cmd_proc, cmd_result>>
clientVars == <<chat_messages, moving_summary_buffer, client_query, client_past,
                client_submitted, client_turns, client_pc>>

bodyVars == <<body_payload, body_result>>

gmailVars == <<service, auth_log, ops_unauth, gmail_ops, mbox_messages, mbox_labels, api_log,
               tool_result, last_sent>>

vars == <<cmdVars, clientVars, bodyVars, gmailVars>>

\* Python's None.
None == [type |-> "NoneType"]

\* A Python str value.
Str(t) == [type |-> "str", val |-> t]

\* The outcome of a call: a value returned, or an exception that left the call.
Return(v) == [kind |-> "return", value |-> v]
Raise(cls, msg) == [kind |-> "raise", cls |-> cls, msg |-> msg]

\* Sequences over S of length at most n.
RECURSIVE SeqsUpTo(_, _)
SeqsUpTo(S, n) ==
    IF n = 0 THEN {<<>>}
    ELSE LET shorter == SeqsUpTo(S, n - 1)
         IN  shorter \cup {Append(s, x) : s \in {t \in shorter : Len(t) = n - 1}, x \in S}

\* The letters A-Z, a-z, the digits, "-" and "_": the base64url alphabet
\* (RFC 4648, section 5), value i at position i + 1; upper case at 1..26, lower
\* case at 27..52.
B64Alphabet ==
    << "A", "B", "C", "D", "E", "F", "G", "H", "I", "J", "K", "L", "M",
       "N", "O", "P", "Q", "R", "S", "T", "U", "V", "W", "X", "Y", "Z",
       "a", "b", "c", "d", "e", "f", "g", "h", "i", "j", "k", "l", "m",
       "n", "o", "p", "q", "r", "s", "t", "u", "v", "w", "x", "y", "z",
       "0", "1", "2", "3", "4", "5", "6", "7", "8", "9", "-", "_" >>

\* str.lower() on one character and on a text.
LowerChar(c) ==
    IF \E i \in 1..26 : B64Alphabet[i] = c
    THEN B64Alphabet[(CHOOSE i \in 1..26 : B64Alphabet[i] = c) + 26]
    ELSE c

LowerText(t) == [i \in 1..Len(t) |-> LowerChar(t[i])]

(***************************************************************************)
(* TERMINAL TOOL                                                           *)
(***************************************************************************)

\* Longest captured stream / command / exception text in the model.
MaxOut == 2

OutChars == {"a", "b"}
OutTexts == SeqsUpTo(OutChars, MaxOut)
Commands == {<<"l", "s">>, <<"x">>, <<>>}
ExitCodes == {0, 1, 127}

\* The exceptions subprocess.run raises; each is a subclass of Exception
\* (OSError: the shell or cwd is missing; ValueError: embedded null byte;
\* UnicodeDecodeError: text=True and the output is not valid text).
ExceptionClasses == {"OSError", "ValueError", "UnicodeDecodeError"}

\* The classes a handler `except Exception` catches.
CaughtByExceptException == {"Exception", "OSError", "ValueError", "UnicodeDecodeError",
                            "FileNotFoundError", "AttributeError", "HttpError",
                            "RefreshError", "KeyError"}

\* subprocess.run(command, shell=True, capture_output=True, text=True): either a
\* CompletedProcess with both streams captured as str, or an exception.
ProcOutcomes ==
    [kind : {"completed"}, returncode : ExitCodes, stdout : OutTexts, stderr : OutTexts]
    \cup [kind : {"raise"}, cls : ExceptionClasses, msg : OutTexts]

\* Python's `a or b` on two str values.
StrOr(a, b) == IF a # <<>> THEN a ELSE b

\* A handler that catches only OSError.
run_command_narrow_except(command, proc) ==
    IF proc.kind = "completed"
    THEN Return(Str(StrOr(proc.stdout, proc.stderr)))
    ELSE IF proc.cls = "OSError"
         THEN Return(Str(proc.msg))
         ELSE Raise(proc.cls, proc.msg)

\* A handler that returns both streams joined.
run_command_joined(command, proc) ==
    IF proc.kind = "completed"
    THEN Return(Str(proc.stdout \o proc.stderr))
    ELSE Return(Str(proc.msg))

\* run_command(command): the try block returns result.stdout or result.stderr;
\* `except Exception as e` returns str(e).
run_command(command, proc) ==
    IF proc.kind = "completed"
    THEN Return(Str(StrOr(proc.stdout, proc.stderr)))
    ELSE IF proc.cls \in CaughtByExceptException
         THEN Return(Str(proc.msg))
         ELSE Raise(proc.cls, proc.msg)

CmdInit ==
    /\ cmd_command = <<>>
    /\ cmd_proc = None
    /\ cmd_result = None

\* One invocation of the run_command tool.
RunCommand ==
    \E command \in Commands, proc \in ProcOutcomes :
        /\ cmd_proc = None
        /\ cmd_command' = command
        /\ cmd_proc' = proc
        /\ cmd_result' = run_command(command, proc)
        /\ UNCHANGED <<clientVars, bodyVars, gmailVars>>

CmdNext == RunCommand

(***************************************************************************)
(* CLIENT TURN LOOP                                                        *)
(***************************************************************************)

\* Turns of the while-loop the model follows.
MaxTurns == 3

\* max_token_limit of the ConversationSummaryBufferMemory.
max_token_limit == 1000

\* llm.get_num_tokens_from_messages counts a tenth of the ceiling for each
\* character of model text, so that the second turn crosses the ceiling.
TokensPerChar == max_token_limit \div 10

HumanMessage(content) == [role |-> "human", content |-> content]
AIMessage(content) == [role |-> "ai", content |-> content]
SystemMessage(content) == [role |-> "system", content |-> content]

\* The system message run_agent puts first in every submitted list.
AgentSystemMessage == SystemMessage(<<"You are a helpful assistant.">>)

\* What input("\nQuery: ").strip() can be.
Queries == { <<"h", "i">>, <<"l", "s">>, <<"q", "u", "i", "t">>, <<"Q", "U", "I", "T">>,
             <<"Q", "u", "i", "t">> }

\* The final answer the agent's model produces.
Answers == { <<"o", "k">>, <<"n", "o">> }

\* The token estimate of a message list.
RECURSIVE NumTokens(_)
NumTokens(msgs) ==
    IF msgs = <<>> THEN 0
    ELSE Len(Head(msgs).content) * TokensPerChar + NumTokens(Tail(msgs))

RECURSIVE ConcatContents(_)
ConcatContents(msgs) ==
    IF msgs = <<>> THEN <<>> ELSE Head(msgs).content \o ConcatContents(Tail(msgs))

\* str(response): agent.ainvoke returns the graph state {"messages": [...]}, the
\* submitted messages followed by the agent's answer; its str() spells them all.
StrOfResponse(response) == <<"{">> \o ConcatContents(response.messages) \o <<"}">>

\* agent.ainvoke({"messages": messages}) with the model answering `answer`.
AgentInvoke(messages, answer) == [messages |-> Append(messages, AIMessage(answer))]

\* memory.chat_memory.add_message(m): appends to the stored list, nothing else
\* (pruning lives in save_context, which run_agent never calls).
add_message(messages, m) == Append(messages, m)

\* memory.load_memory_variables({})["history"] with return_messages=True: the
\* stored messages, after a summary message when moving_summary_buffer is set.
load_memory_variables(messages, summary) ==
    IF summary # <<>> THEN <<SystemMessage(summary)>> \o messages ELSE messages

ClientInit ==
    /\ chat_messages = <<>>
    /\ moving_summary_buffer = <<>>
    /\ client_query = <<>>
    /\ client_past = <<>>
    /\ client_submitted = <<>>
    /\ client_turns = 0
    /\ client_pc = "loop"

\* The while-loop body for a query that is not quit, up to the await: the query
\* is stored, the history read, the list built and handed to agent.ainvoke,
\* where run_agent is suspended.
ClientSubmit ==
    \E query \in Queries :
        /\ client_pc = "loop"
        /\ client_turns < MaxTurns
        /\ LowerText(query) # <<"q", "u", "i", "t">>
        /\ LET stored == add_message(chat_messages, HumanMessage(query))
               past_messages == load_memory_variables(stored, moving_summary_buffer)
               messages == <<AgentSystemMessage>> \o past_messages
                               \o <<HumanMessage(query)>>
           IN  /\ client_query' = query
               /\ client_past' = past_messages
               /\ client_submitted' = messages
               /\ chat_messages' = stored
        /\ client_turns' = client_turns + 1
        /\ client_pc' = "await"
        /\ UNCHANGED moving_summary_buffer
        /\ UNCHANGED <<cmdVars, bodyVars, gmailVars>>

\* agent.ainvoke returns: str(response) is stored as the AI message and the
\* loop goes back to input().
ClientAnswer ==
    \E answer \in Answers :
        /\ client_pc = "await"
        /\ LET response == AgentInvoke(client_submitted, answer)
           IN  chat_messages' = add_message(chat_messages, AIMessage(StrOfResponse(response)))
        /\ client_pc' = "loop"
        /\ UNCHANGED <<moving_summary_buffer, client_query, client_past, client_submitted,
                       client_turns>>
        /\ UNCHANGED <<cmdVars, bodyVars, gmailVars>>

\* agent.ainvoke raises: nothing in run_agent catches it, so the exception ends
\* run_agent with the query stored and no AI message after it.
ClientRaise ==
    /\ client_pc = "await"
    /\ client_pc' = "raised"
    /\ UNCHANGED <<chat_messages, moving_summary_buffer, client_query, client_past,
                   client_submitted, client_turns>>
    /\ UNCHANGED <<cmdVars, bodyVars, gmailVars>>

\* query.lower() == "quit": break.
ClientQuit ==
    \E query \in Queries :
        /\ client_pc = "loop"
        /\ LowerText(query) = <<"q", "u", "i", "t">>
        /\ client_pc' = "done"
        /\ UNCHANGED <<chat_messages, moving_summary_buffer, client_query, client_past,
                       client_submitted, client_turns>>
        /\ UNCHANGED <<cmdVars, bodyVars, gmailVars>>

ClientNext == ClientSubmit \/ ClientAnswer \/ ClientRaise \/ ClientQuit

(***************************************************************************)
(* BODY EXTRACTION: base64url, UTF-8, GmailTool._get_body                   *)
(***************************************************************************)

\* Longest byte string a part's data encodes in the model.
MaxBytes == 3

\* Most parts of a multipart payload in the model.
MaxParts == 2

B64Char(v) == B64Alphabet[v + 1]
B64Value(c) == (CHOOSE i \in 1..64 : B64Alphabet[i] = c) - 1

\* base64.urlsafe_b64encode(bytes), padded with "=".
RECURSIVE B64Encode(_)
B64Encode(bs) ==
    CASE Len(bs) = 0 -> <<>>
      [] Len(bs) = 1 ->
            << B64Char(bs[1] \div 4), B64Char((bs[1] % 4) * 16), "=", "=" >>
      [] Len(bs) = 2 ->
            << B64Char(bs[1] \div 4),
               B64Char((bs[1] % 4) * 16 + bs[2] \div 16),
               B64Char((bs[2] % 16) * 4), "=" >>
      [] OTHER ->
            << B64Char(bs[1] \div 4),
               B64Char((bs[1] % 4) * 16 + bs[2] \div 16),
               B64Char((bs[2] % 16) * 4 + bs[3] \div 64),
               B64Char(bs[3] % 64) >> \o B64Encode(SubSeq(bs, 4, Len(bs)))

\* base64.urlsafe_b64decode(data) on padded base64url text, four characters at
\* a time: "xx==" is one byte, "xxx=" two, "xxxx" three.
RECURSIVE B64Decode(_)
B64Decode(data) ==
    IF Len(data) < 4 THEN <<>>
    ELSE LET a == B64Value(data[1])
             b == B64Value(data[2])
         IN  IF data[3] = "="
             THEN << a * 4 + b \div 16 >>
             ELSE LET c == B64Value(data[3])
                  IN  IF data[4] = "="
                      THEN << a * 4 + b \div 16, (b % 16) * 16 + c \div 4 >>
                      ELSE << a * 4 + b \div 16, (b % 16) * 16 + c \div 4,
                              (c % 4) * 64 + B64Value(data[4]) >>
                           \o B64Decode(SubSeq(data, 5, Len(data)))

\* bytes.decode("utf-8", errors="ignore") to a sequence of code points, for
\* bytes below 0xE0 and above 0xF4 (one- and two-byte characters; every byte
\* that starts or continues nothing is dropped alone).
RECURSIVE Utf8DecodeIgnore(_)
Utf8DecodeIgnore(bs) ==
    IF bs = <<>> THEN <<>>
    ELSE LET b == Head(bs)
         IN  IF b < 128 THEN <<b>> \o Utf8DecodeIgnore(Tail(bs))
             ELSE IF /\ b >= 194 /\ b <= 223
                     /\ Len(bs) >= 2 /\ bs[2] >= 128 /\ bs[2] <= 191
             THEN << (b - 192) * 64 + (bs[2] - 128) >> \o Utf8DecodeIgnore(Tail(Tail(bs)))
             ELSE Utf8DecodeIgnore(Tail(bs))

\* The bytes the model puts in a part: "A", the two bytes of U+00E9, each of
\* which alone is not valid UTF-8.
ModelBytes == {65, 195, 169}
ByteStrings == SeqsUpTo(ModelBytes, MaxBytes)

\* part["body"]: with a "data" key (possibly the empty str) or without one.
PartBodies == {[size |-> 0]} \cup {[size |-> Len(bs), data |-> B64Encode(bs)] : bs \in ByteStrings}
SmallBodies == {[size |-> 0], [size |-> 0, data |-> <<>>],
                [size |-> 1, data |-> B64Encode(<<65>>)],
                [size |-> 1, data |-> B64Encode(<<169>>)]}

LeafTypes == {"text/plain", "text/html"}

Leaf(mime, body) == [mimeType |-> mime, body |-> body]
Multipart(mime, parts) == [mimeType |-> mime, body |-> [size |-> 0], parts |-> parts]

\* Single-part payloads: no "parts" key.
SinglePayloads == {Leaf(m, b) : m \in LeafTypes, b \in PartBodies}

\* What a top-level part can be: a leaf, or a multipart/alternative holding a leaf.
SmallLeaves == {Leaf(m, b) : m \in LeafTypes, b \in SmallBodies}
TopParts == SmallLeaves \cup {Multipart("multipart/alternative", <<l>>) : l \in SmallLeaves}

MultipartPayloads ==
    {Multipart("multipart/mixed", ps) : ps \in SeqsUpTo(TopParts, MaxParts)}

Payloads == SinglePayloads \cup MultipartPayloads

\* d.get("data", "")
GetData(body) == IF "data" \in DOMAIN body THEN body.data ELSE <<>>

\* base64.urlsafe_b64decode(data).decode("utf-8", errors="ignore")
DecodeData(data) == Utf8DecodeIgnore(B64Decode(data))

\* A walk that descends into nested multiparts.
RECURSIVE WalkPartsDeep(_)
WalkPartsDeep(parts) ==
    IF parts = <<>> THEN <<>>
    ELSE LET part == Head(parts)
             here == IF "parts" \in DOMAIN part THEN WalkPartsDeep(part.parts)
                     ELSE IF part.mimeType = "text/plain" /\ GetData(part.body) # <<>>
                          THEN DecodeData(GetData(part.body))
                          ELSE <<>>
         IN  IF here # <<>> THEN here ELSE WalkPartsDeep(Tail(parts))

\* The for-loop of _get_body over payload["parts"]: the first text/plain part
\* whose data is non-empty sets body and breaks; nothing else is looked into.
RECURSIVE WalkParts(_)
WalkParts(parts) ==
    IF parts = <<>> THEN <<>>
    ELSE LET part == Head(parts)
         IN  IF part.mimeType = "text/plain" /\ GetData(part.body) # <<>>
             THEN DecodeData(GetData(part.body))
             ELSE WalkParts(Tail(parts))

\* A _get_body that walks the whole part tree.
get_body_deep(payload) ==
    IF "parts" \in DOMAIN payload
    THEN WalkPartsDeep(payload.parts)
    ELSE IF payload.mimeType = "text/plain" /\ GetData(payload.body) # <<>>
         THEN DecodeData(GetData(payload.body))
         ELSE <<>>

\* GmailTool._get_body(payload)
get_body(payload) ==
    IF "parts" \in DOMAIN payload
    THEN WalkParts(payload.parts)
    ELSE IF payload.mimeType = "text/plain" /\ GetData(payload.body) # <<>>
         THEN DecodeData(GetData(payload.body))
         ELSE <<>>

BodyInit ==
    /\ body_payload = None
    /\ body_result = <<>>

\* One call of _get_body.
GetBody ==
    \E payload \in Payloads :
        /\ body_payload = None
        /\ body_payload' = payload
        /\ body_result' = get_body(payload)
        /\ UNCHANGED <<cmdVars, clientVars, gmailVars>>

BodyNext == GetBody

(***************************************************************************)
(* THE MAILBOX: what the Gmail API does with the calls the adapter issues  *)
(***************************************************************************)

\* Gmail tool invocations the model follows.
MaxOps == 3

\* Most messages and most labels the mailbox holds in the model.
MaxMessages == 3
MaxLabels == 6

\* The API handle build("gmail", "v1", credentials=creds) returns.
Resource == [type |-> "Resource"]

\* Ids the mailbox hands out, in order.
MessageIds == <<"m1", "m2", "m3", "m4", "m5", "m6">>
LabelIds == <<"Label_1", "Label_2", "Label_3", "Label_4", "Label_5", "Label_6", "Label_7",
              "Label_8">>

Header(name, value) == [name |-> name, value |-> value]

Label(id, name) == [id |-> id, name |-> name]

HttpError == Raise("HttpError", <<"HttpError">>)

\* The mailbox before any tool ran: two received messages, the system labels
\* and one user label.
InitialMessages ==
    << [ id |-> "m2",
         headers |-> << Header("From", <<"b">>), Header("Subject", <<"N", "e", "w", "s">>),
                        Header("Date", <<"2">>) >>,
         labelIds |-> {"INBOX"},
         snippet |-> <<"n">>,
         payload |-> Multipart("multipart/alternative",
                               << Leaf("text/html", [size |-> 1, data |-> B64Encode(<<65>>)]) >>) ],
       [ id |-> "m1",
         headers |-> << Header("From", <<"a">>), Header("To", <<"m", "e">>),
                        Header("Subject", <<"H", "i">>), Header("Date", <<"1">>) >>,
         labelIds |-> {"INBOX", "UNREAD", "Label_1"},
         snippet |-> <<"h">>,
         payload |-> Leaf("text/plain", [size |-> 1, data |-> B64Encode(<<65>>)]) ] >>

InitialLabels ==
    << Label("INBOX", <<"I", "N", "B", "O", "X">>),
       Label("TRASH", <<"T", "R", "A", "S", "H">>),
       Label("UNREAD", <<"U", "N", "R", "E", "A", "D">>),
       Label("SENT", <<"S", "E", "N", "T">>),
       Label("Label_1", <<"W", "o", "r", "k">>) >>

SystemLabelIds == {"INBOX", "TRASH", "UNREAD", "SENT"}

\* The ids of a sequence of messages, in order.
IdsOf(msgs) == [i \in 1..Len(msgs) |-> msgs[i].id]

FirstN(seq, n) == SubSeq(seq, 1, IF Len(seq) < n THEN Len(seq) ELSE n)

\* Whether the search query q matches a message ("" matches all).
Matches(m, q) == q = "" \/ (q = "is:unread" /\ "UNREAD" \in m.labelIds)

\* users.messages.list(q, maxResults): the ids of the matching messages outside
\* Trash, newest first, at most maxResults of them, on one page.
ApiListByQuery(msgs, q, maxResults) ==
    LET Hit(m) == Matches(m, q) /\ "TRASH" \notin m.labelIds
    IN  FirstN(IdsOf(SelectSeq(msgs, Hit)), maxResults)

\* users.messages.list(labelIds=[label_id]): the ids of the messages carrying
\* the label (those in Trash only when Trash itself is asked for).
ApiListByLabel(msgs, label_id) ==
    LET Hit(m) == label_id \in m.labelIds /\ (label_id = "TRASH" \/ "TRASH" \notin m.labelIds)
    IN  IdsOf(SelectSeq(msgs, Hit))

HasMessage(msgs, id) == \E i \in 1..Len(msgs) : msgs[i].id = id

MessageOf(msgs, id) == msgs[CHOOSE i \in 1..Len(msgs) : msgs[i].id = id]

InSeq(x, seq) == \E i \in 1..Len(seq) : seq[i] = x

\* users.messages.delete: the messages named leave the mailbox for good.
ApiDeleteMessages(msgs, ids) ==
    LET Kept(m) == ~InSeq(m.id, ids)
    IN  SelectSeq(msgs, Kept)

\* users.messages.trash: the messages named move to Trash (they gain TRASH and
\* leave the inbox); none is removed.
ApiAddTrash(msgs, ids) ==
    [i \in 1..Len(msgs) |->
        IF InSeq(msgs[i].id, ids)
        THEN [msgs[i] EXCEPT !.labelIds = (@ \ {"INBOX"}) \cup {"TRASH"}]
        ELSE msgs[i]]

\* users.messages.batchModify(ids, removeLabelIds, addLabelIds): the messages
\* named lose the labels of the one list and gain those of the other; none is
\* removed.
ApiBatchModify(msgs, ids, removeLabelIds, addLabelIds) ==
    [i \in 1..Len(msgs) |->
        IF InSeq(msgs[i].id, ids)
        THEN [msgs[i] EXCEPT !.labelIds =
                  (@ \ {removeLabelIds[k] : k \in 1..Len(removeLabelIds)})
                      \cup {addLabelIds[k] : k \in 1..Len(addLabelIds)}]
        ELSE msgs[i]]

\* The record of one API call in api_log: the endpoint, the arguments, the
\* response (None when the call raised) and whether it returned.
Call(api, args, response, ok) ==
    [api |-> api, args |-> args, response |-> IF ok THEN response ELSE None, ok |-> ok]

\* What an adapter operation did: its outcome, the API calls it issued and the
\* mailbox it left.
Done(out, calls, msgs, lbls) == [out |-> out, calls |-> calls, messages |-> msgs, labels |-> lbls]

\* dict lookup headers.get(name, "") after {h["name"]: h["value"] for h in ...}:
\* names compare exactly, the last header of a name wins.
HeaderGet(headers, name) ==
    LET F[i \in 0..Len(headers)] ==
            IF i = 0 THEN <<>>
            ELSE IF headers[i].name = name THEN headers[i].value ELSE F[i - 1]
    IN  F[Len(headers)]

(***************************************************************************)
(* GmailTool: the adapter operations, each on an authenticated handle.     *)
(* failAt = k makes the k-th API call of the operation raise HttpError     *)
(* (0: none does).                                                         *)
(***************************************************************************)

Summary(msgs, id) ==
    LET email_data == MessageOf(msgs, id)
    IN  [ id |-> id,
          subject |-> HeaderGet(email_data.headers, "Subject"),
          from |-> HeaderGet(email_data.headers, "From"),
          date |-> HeaderGet(email_data.headers, "Date"),
          snippet |-> email_data.snippet ]

\* A list_emails that builds the list newest-last.
gmail_list_emails_reversed(msgs, lbls, query, max_results, failAt) ==
    LET listed == ApiListByQuery(msgs, query, max_results)
        n == Len(listed)
        ListCall(ok) == Call("messages.list", [q |-> query, maxResults |-> max_results],
                             listed, ok)
        GetCall(i) == Call("messages.get", [id |-> listed[i], format |-> "metadata"],
                           listed[i], failAt # i + 1)
    IN  IF failAt = 1 THEN Done(HttpError, <<ListCall(FALSE)>>, msgs, lbls)
        ELSE IF failAt - 1 \in 1..n
        THEN Done(HttpError, <<ListCall(TRUE)>> \o [i \in 1..(failAt - 1) |-> GetCall(i)],
                  msgs, lbls)
        ELSE Done(Return([i \in 1..n |-> Summary(msgs, listed[n + 1 - i])]),
                  <<ListCall(TRUE)>> \o [i \in 1..n |-> GetCall(i)], msgs, lbls)

\* GmailTool.list_emails(query, max_results): one list call, then one metadata
\* get per listed id, one summary appended per id.
gmail_list_emails(msgs, lbls, query, max_results, failAt) ==
    LET listed == ApiListByQuery(msgs, query, max_results)
        n == Len(listed)
        ListCall(ok) == Call("messages.list", [q |-> query, maxResults |-> max_results],
                             listed, ok)
        GetCall(i) == Call("messages.get", [id |-> listed[i], format |-> "metadata"],
                           listed[i], failAt # i + 1)
    IN  IF failAt = 1 THEN Done(HttpError, <<ListCall(FALSE)>>, msgs, lbls)
        ELSE IF failAt - 1 \in 1..n
        THEN Done(HttpError, <<ListCall(TRUE)>> \o [i \in 1..(failAt - 1) |-> GetCall(i)],
                  msgs, lbls)
        ELSE Done(Return([i \in 1..n |-> Summary(msgs, listed[i])]),
                  <<ListCall(TRUE)>> \o [i \in 1..n |-> GetCall(i)], msgs, lbls)

\* GmailTool.get_email(message_id): one full get; the record is read off the
\* headers by exact name, the body off the payload.
gmail_get_email(msgs, lbls, message_id, failAt) ==
    LET ok == failAt # 1 /\ HasMessage(msgs, message_id)
        GetCall == Call("messages.get", [id |-> message_id, format |-> "full"],
                        message_id, ok)
    IN  IF ~ok THEN Done(HttpError, <<GetCall>>, msgs, lbls)
        ELSE LET msg == MessageOf(msgs, message_id)
             IN  Done(Return([ id |-> message_id,
                               subject |-> HeaderGet(msg.headers, "Subject"),
                               from |-> HeaderGet(msg.headers, "From"),
                               to |-> HeaderGet(msg.headers, "To"),
                               date |-> HeaderGet(msg.headers, "Date"),
                               body |-> get_body(msg.payload) ]),
                      <<GetCall>>, msgs, lbls)

\* GmailTool.delete_email(message_id): one trash call.
gmail_delete_email(msgs, lbls, message_id, failAt) ==
    LET ok == failAt # 1 /\ HasMessage(msgs, message_id)
        TrashCall == Call("messages.trash", [id |-> message_id], message_id, ok)
    IN  IF ~ok THEN Done(HttpError, <<TrashCall>>, msgs, lbls)
        ELSE Done(Return([status |-> "deleted", id |-> message_id]), <<TrashCall>>,
                  ApiAddTrash(msgs, <<message_id>>), lbls)

\* MIMEText(body): the three headers the constructor sets, and the text.
MIMEText(body) ==
    [ headers |-> << Header("Content-Type", <<"text/plain; charset=\"us-ascii\"">>),
                     Header("MIME-Version", <<"1.0">>),
                     Header("Content-Transfer-Encoding", <<"7bit">>) >>,
      body |-> body ]

\* message[name] = value: appends a header under the name as written.
SetHeader(message, name, value) ==
    [message EXCEPT !.headers = Append(@, Header(name, value))]

\* users.messages.send(raw): the mailbox stores the message with the headers as
\* they were written, under a fresh id, labelled SENT.
StoredMessage(id, message) ==
    [ id |-> id,
      headers |-> message.headers,
      labelIds |-> {"SENT"},
      snippet |-> message.body,
      payload |-> Leaf("text/plain", [size |-> Len(message.body),
                                      data |-> B64Encode(message.body)]) ]

\* GmailTool.send_email(to, subject, body): one send call of the MIME message;
\* the API refuses a message without a recipient.
gmail_send_email(msgs, lbls, to, subject, body, failAt) ==
    LET message == SetHeader(SetHeader(MIMEText(body), "to", to), "subject", subject)
        ok == failAt # 1 /\ to # <<>>
        id == MessageIds[Len(msgs) + 1]
        send_result == [id |-> id, threadId |-> id, labelIds |-> <<"SENT">>]
        SendCall == Call("messages.send", [raw |-> message], send_result, ok)
    IN  IF ~ok THEN Done(HttpError, <<SendCall>>, msgs, lbls)
        ELSE Done(Return(send_result), <<SendCall>>,
                  <<StoredMessage(id, message)>> \o msgs, lbls)

\* next((l["id"] for l in labels if l["name"].lower() == label_name.lower()), None)
FindLabel(lbls, label_name) ==
    LET Hit(i) == LowerText(lbls[i].name) = LowerText(label_name)
    IN  IF \E i \in 1..Len(lbls) : Hit(i)
        THEN [found |-> TRUE,
              id |-> lbls[CHOOSE i \in 1..Len(lbls) :
                              Hit(i) /\ \A j \in 1..(i - 1) : ~Hit(j)].id]
        ELSE [found |-> FALSE]

\* `not label_id`: None or the empty str.
NotLabelId(label) == ~label.found \/ label.id = ""

NotFoundError(label_name) ==
    [error |-> <<"Label '">> \o label_name \o <<"' not found">>]

\* A delete_emails_in_label without the `if not messages` return.
gmail_delete_emails_in_label_no_empty_return(msgs, lbls, label_name, failAt) ==
    LET LabelsCall(ok) == Call("labels.list", [userId |-> "me"], lbls, ok)
        label == FindLabel(lbls, label_name)
        message_ids == ApiListByLabel(msgs, label.id)
        ListCall(ok) == Call("messages.list", [labelIds |-> <<label.id>>], message_ids, ok)
        BatchCall(ok) == Call("messages.batchModify",
                              [ids |-> message_ids, removeLabelIds |-> <<>>,
                               addLabelIds |-> <<"TRASH">>], None, ok)
    IN  IF failAt = 1 THEN Done(HttpError, <<LabelsCall(FALSE)>>, msgs, lbls)
        ELSE IF NotLabelId(label)
        THEN Done(Return(NotFoundError(label_name)), <<LabelsCall(TRUE)>>, msgs, lbls)
        ELSE IF failAt = 2
        THEN Done(HttpError, <<LabelsCall(TRUE), ListCall(FALSE)>>, msgs, lbls)
        ELSE IF failAt = 3
        THEN Done(HttpError, <<LabelsCall(TRUE), ListCall(TRUE), BatchCall(FALSE)>>,
                  msgs, lbls)
        ELSE Done(Return([status |-> "deleted", count |-> Len(message_ids),
                          label |-> label_name]),
                  <<LabelsCall(TRUE), ListCall(TRUE), BatchCall(TRUE)>>,
                  ApiBatchModify(msgs, message_ids, <<>>, <<"TRASH">>), lbls)

\* GmailTool.delete_emails_in_label(label_name): list the labels, resolve the
\* name ignoring case, list the messages under the label, trash them in one
\* batchModify call.
gmail_delete_emails_in_label(msgs, lbls, label_name, failAt) ==
    LET LabelsCall(ok) == Call("labels.list", [userId |-> "me"], lbls, ok)
        label == FindLabel(lbls, label_name)
        message_ids == ApiListByLabel(msgs, label.id)
        ListCall(ok) == Call("messages.list", [labelIds |-> <<label.id>>], message_ids, ok)
        BatchCall(ok) == Call("messages.batchModify",
                              [ids |-> message_ids, removeLabelIds |-> <<>>,
                               addLabelIds |-> <<"TRASH">>], None, ok)
    IN  IF failAt = 1 THEN Done(HttpError, <<LabelsCall(FALSE)>>, msgs, lbls)
        ELSE IF NotLabelId(label)
        THEN Done(Return(NotFoundError(label_name)), <<LabelsCall(TRUE)>>, msgs, lbls)
        ELSE IF failAt = 2
        THEN Done(HttpError, <<LabelsCall(TRUE), ListCall(FALSE)>>, msgs, lbls)
        ELSE IF message_ids = <<>>
        THEN Done(Return([status |-> "no emails found under this label"]),
                  <<LabelsCall(TRUE), ListCall(TRUE)>>, msgs, lbls)
        ELSE IF failAt = 3
        THEN Done(HttpError, <<LabelsCall(TRUE), ListCall(TRUE), BatchCall(FALSE)>>,
                  msgs, lbls)
        ELSE Done(Return([status |-> "deleted", count |-> Len(message_ids),
                          label |-> label_name]),
                  <<LabelsCall(TRUE), ListCall(TRUE), BatchCall(TRUE)>>,
                  ApiBatchModify(msgs, message_ids, <<>>, <<"TRASH">>), lbls)

\* GmailTool.list_labels()
gmail_list_labels(msgs, lbls, failAt) ==
    IF failAt = 1
    THEN Done(HttpError, <<Call("labels.list", [userId |-> "me"], lbls, FALSE)>>, msgs, lbls)
    ELSE Done(Return(lbls), <<Call("labels.list", [userId |-> "me"], lbls, TRUE)>>, msgs, lbls)

HasLabelId(lbls, id) == \E i \in 1..Len(lbls) : lbls[i].id = id

NameTaken(lbls, name) ==
    \E i \in 1..Len(lbls) : LowerText(lbls[i].name) = LowerText(name)

\* The first user label id no label of the mailbox carries.
FreshLabelId(lbls) ==
    LabelIds[CHOOSE i \in 1..Len(LabelIds) :
                 ~HasLabelId(lbls, LabelIds[i])
                 /\ \A j \in 1..(i - 1) : HasLabelId(lbls, LabelIds[j])]

\* GmailTool.create_label(name): one create call; the API refuses a name that
\* is taken.
gmail_create_label(msgs, lbls, name, failAt) ==
    LET ok == failAt # 1 /\ ~NameTaken(lbls, name)
        label_obj == [name |-> name, labelListVisibility |-> "labelShow",
                      messageListVisibility |-> "show"]
        created == Label(FreshLabelId(lbls), name)
        CreateCall == Call("labels.create", label_obj, created, ok)
    IN  IF ~ok THEN Done(HttpError, <<CreateCall>>, msgs, lbls)
        ELSE Done(Return(created), <<CreateCall>>, msgs, Append(lbls, created))

\* label_obj = {}: the dict with no key.
EmptyDict == [key \in {} |-> None]

\* GmailTool.update_label(label_id, new_name): one update call, its body the
\* name when a name is given and the empty dict otherwise; the API refuses
\* system labels, unknown ids and taken names, and answers the label resource.
gmail_update_label(msgs, lbls, label_id, new_name, failAt) ==
    LET label_obj == IF new_name # <<>> THEN [name |-> new_name] ELSE EmptyDict
        ok == /\ failAt # 1
              /\ HasLabelId(lbls, label_id)
              /\ label_id \notin SystemLabelIds
              /\ ~NameTaken(lbls, new_name)
        updated == [i \in 1..Len(lbls) |->
                       IF lbls[i].id = label_id /\ new_name # <<>>
                       THEN Label(label_id, new_name) ELSE lbls[i]]
        resource == IF HasLabelId(lbls, label_id)
                    THEN updated[CHOOSE i \in 1..Len(lbls) : lbls[i].id = label_id]
                    ELSE None
        UpdateCall == Call("labels.update", [id |-> label_id, body |-> label_obj],
                           resource, ok)
    IN  IF ~ok THEN Done(HttpError, <<UpdateCall>>, msgs, lbls)
        ELSE Done(Return(resource), <<UpdateCall>>, msgs, updated)

\* GmailTool.delete_label(label_id): one delete call; the label leaves the list
\* and every message that carried it.
gmail_delete_label(msgs, lbls, label_id, failAt) ==
    LET ok == failAt # 1 /\ HasLabelId(lbls, label_id) /\ label_id \notin SystemLabelIds
        DeleteCall == Call("labels.delete", [id |-> label_id], None, ok)
        Keep(l) == l.id # label_id
    IN  IF ~ok THEN Done(HttpError, <<DeleteCall>>, msgs, lbls)
        ELSE Done(Return([status |-> "deleted", id |-> label_id]), <<DeleteCall>>,
                  [i \in 1..Len(msgs) |-> [msgs[i] EXCEPT !.labelIds = @ \ {label_id}]],
                  SelectSeq(lbls, Keep))

(***************************************************************************)
(* GmailTool.auth and the lazy `if not self.service: self.auth()`          *)
(***************************************************************************)

\* What auth() finds: token.json (missing, valid, expired with a refresh token,
\* or invalid without one), whether the refresh succeeds, and whether the
\* consent flow from credentials.json completes.
AuthEnvs ==
    { [token |-> "valid", refresh_ok |-> TRUE, consent_ok |-> TRUE],
      [token |-> "expired", refresh_ok |-> TRUE, consent_ok |-> TRUE],
      [token |-> "expired", refresh_ok |-> FALSE, consent_ok |-> TRUE],
      [token |-> "missing", refresh_ok |-> TRUE, consent_ok |-> TRUE],
      [token |-> "invalid", refresh_ok |-> TRUE, consent_ok |-> FALSE] }

\* auth() is reached only with no handle cached: with one, what it would find
\* is never looked at.
AuthChoices(svc) ==
    IF svc = None THEN AuthEnvs
    ELSE {[token |-> "valid", refresh_ok |-> TRUE, consent_ok |-> TRUE]}

\* GmailTool.auth(): the outcome, and the handle it built when it returned.
auth(env) ==
    IF env.token = "valid"
    THEN [out |-> Return(TRUE), service |-> Resource]
    ELSE IF env.token = "expired"
    THEN IF env.refresh_ok
         THEN [out |-> Return(TRUE), service |-> Resource]
         ELSE [out |-> Raise("RefreshError", <<"RefreshError">>), service |-> None]
    ELSE IF env.consent_ok
         THEN [out |-> Return(TRUE), service |-> Resource]
         ELSE [out |-> Raise("FileNotFoundError", <<"credentials.json">>), service |-> None]

\* An operation prologue that calls auth() every time.
WithAuth_always(svc, env, op, msgs, lbls) ==
    LET a == auth(env)
    IN  IF a.out.kind = "raise"
        THEN [out |-> a.out, calls |-> <<>>, messages |-> msgs, labels |-> lbls,
              service |-> svc, auth |-> <<"raise">>]
        ELSE [out |-> op.out, calls |-> op.calls, messages |-> op.messages,
              labels |-> op.labels, service |-> a.service, auth |-> <<"ok">>]

\* `if not self.service: self.auth()` followed by the operation `op`: auth()
\* runs only when no handle is cached; when it raises, the operation is left
\* with nothing done and the handle still None.
WithAuth(svc, env, op, msgs, lbls) ==
    IF svc = None
    THEN LET a == auth(env)
         IN  IF a.out.kind = "raise"
             THEN [out |-> a.out, calls |-> <<>>, messages |-> msgs, labels |-> lbls,
                   service |-> svc, auth |-> <<"raise">>]
             ELSE [out |-> op.out, calls |-> op.calls, messages |-> op.messages,
                   labels |-> op.labels, service |-> a.service, auth |-> <<"ok">>]
    ELSE [out |-> op.out, calls |-> op.calls, messages |-> op.messages,
          labels |-> op.labels, service |-> svc, auth |-> <<>>]

(***************************************************************************)
(* THE MCP TOOLS of server__v2                                             *)
(***************************************************************************)

\* json.dumps(value, indent=2): a str opening with "[" or "{", of document value.
JsonDumps(opener, value) == [type |-> "str", val |-> <<opener>>, doc |-> value]

\* try: return json.dumps(adapter result) / except Exception as e: return
\* f"Error: {str(e)}"
Wrapped(out, opener) ==
    IF out.kind = "return" THEN Return(JsonDumps(opener, out.value))
    ELSE IF out.cls \in CaughtByExceptException
         THEN Return(Str(<<"Error: ">> \o out.msg))
         ELSE out

\* A handler with no try/except: the adapter's value or its exception.
Unwrapped(out) == out

\* Calling a method GmailTool does not define.
NoSuchMethod(name) ==
    Raise("AttributeError", <<"'GmailTool' object has no attribute '", name, "'">>)

\* Which API call of an operation raises: none, or the k-th of the calls it
\* issues (for a listing, the list call and one get per listed id).
FailPoints(calls) == 0..calls
MessageIdArgs == {"m1", "m2", "m3", "zz"}
QueryArgs == {"", "is:unread"}
MaxResultsArgs == {1, 2, 10}
LabelNameArgs == { <<"W", "o", "r", "k">>, <<"w", "o", "r", "k">>, <<"N", "o">>,
                   <<"i", "n", "b", "o", "x">>, <<"B">> }
NewLabelNames == { <<"B">>, <<"W", "O", "R", "K">> }
LabelIdArgs == {"Label_1", "Label_2", "INBOX", "zz"}
ToArgs == { <<"a", "@", "x">>, <<>> }
SubjectArgs == { <<"H", "i">>, <<>> }
BodyArgs == { <<65>> }

NoTool == [tool |-> "none"]
NothingSent == [id |-> ""]

GmailInit ==
    /\ service = None
    /\ auth_log = <<>>
    /\ ops_unauth = 0
    /\ gmail_ops = 0
    /\ mbox_messages = InitialMessages
    /\ mbox_labels = InitialLabels
    /\ api_log = <<>>
    /\ tool_result = NoTool
    /\ last_sent = NothingSent

\* One invocation of a tool whose handler calls an adapter operation: r is what
\* the adapter call did, out what the handler did with it.
Invoke(tool, args, r, out) ==
    /\ gmail_ops < MaxOps
    /\ gmail_ops' = gmail_ops + 1
    /\ ops_unauth' = IF service = None THEN ops_unauth + 1 ELSE ops_unauth
    /\ service' = r.service
    /\ auth_log' = auth_log \o r.auth
    /\ mbox_messages' = r.messages
    /\ mbox_labels' = r.labels
    /\ api_log' = r.calls
    /\ tool_result' = [tool |-> tool, args |-> args, adapter |-> r.out, out |-> out]
    /\ last_sent' = IF tool = "send_email" /\ r.out.kind = "return"
                    THEN [id |-> r.out.value.id, to |-> args.to, subject |-> args.subject]
                    ELSE last_sent
    /\ UNCHANGED <<cmdVars, clientVars, bodyVars>>

\* One invocation of a tool whose handler calls a method the adapter lacks.
InvokeMissing(tool, method) ==
    /\ gmail_ops < MaxOps
    /\ gmail_ops' = gmail_ops + 1
    /\ api_log' = <<>>
    /\ tool_result' = [tool |-> tool, args |-> [method |-> method],
                       adapter |-> NoSuchMethod(method),
                       out |-> Unwrapped(NoSuchMethod(method))]
    /\ UNCHANGED <<service, auth_log, ops_unauth, mbox_messages, mbox_labels, last_sent>>
    /\ UNCHANGED <<cmdVars, clientVars, bodyVars>>

\* @mcp.tool() list_emails
list_emails ==
    \E query \in QueryArgs, max_results \in MaxResultsArgs, env \in AuthChoices(service) :
      \E f \in FailPoints(1 + Len(ApiListByQuery(mbox_messages, query, max_results))) :
        LET r == WithAuth(service, env,
                          gmail_list_emails(mbox_messages, mbox_labels, query, max_results, f),
                          mbox_messages, mbox_labels)
        IN  Invoke("list_emails", [query |-> query, max_results |-> max_results], r,
                   Wrapped(r.out, "["))

\* @mcp.tool() get_email
get_email ==
    \E message_id \in MessageIdArgs, env \in AuthChoices(service), f \in FailPoints(1) :
        LET r == WithAuth(service, env,
                          gmail_get_email(mbox_messages, mbox_labels, message_id, f),
                          mbox_messages, mbox_labels)
        IN  Invoke("get_email", [message_id |-> message_id], r, Wrapped(r.out, "{"))

\* @mcp.tool() get_unread_emails
get_unread_emails ==
    \E env \in AuthChoices(service),
       f \in FailPoints(1 + Len(ApiListByQuery(mbox_messages, "is:unread", 20))) :
        LET r == WithAuth(service, env,
                          gmail_list_emails(mbox_messages, mbox_labels, "is:unread", 20, f),
                          mbox_messages, mbox_labels)
        IN  Invoke("get_unread_emails", [query |-> "is:unread", max_results |-> 20], r,
                   Wrapped(r.out, "["))

\* @mcp.tool() send_email
send_email ==
    \E to \in ToArgs, subject \in SubjectArgs, body \in BodyArgs, env \in AuthChoices(service),
       f \in FailPoints(1) :
        /\ Len(mbox_messages) < MaxMessages
        /\ LET r == WithAuth(service, env,
                             gmail_send_email(mbox_messages, mbox_labels, to, subject, body, f),
                             mbox_messages, mbox_labels)
           IN  Invoke("send_email", [to |-> to, subject |-> subject, body |-> body], r,
                      Wrapped(r.out, "{"))

\* @mcp.tool() delete_email
delete_email ==
    \E message_id \in MessageIdArgs, env \in AuthChoices(service), f \in FailPoints(1) :
        LET r == WithAuth(service, env,
                          gmail_delete_email(mbox_messages, mbox_labels, message_id, f),
                          mbox_messages, mbox_labels)
        IN  Invoke("delete_email", [message_id |-> message_id], r, Wrapped(r.out, "{"))

\* @mcp.tool() delete_emails_in_label
delete_emails_in_label ==
    \E label_name \in LabelNameArgs, env \in AuthChoices(service) :
      \E f \in FailPoints(Len(gmail_delete_emails_in_label(mbox_messages, mbox_labels,
                                                            label_name, 0).calls)) :
        LET r == WithAuth(service, env,
                          gmail_delete_emails_in_label(mbox_messages, mbox_labels,
                                                       label_name, f),
                          mbox_messages, mbox_labels)
        IN  Invoke("delete_emails_in_label", [label_name |-> label_name], r,
                   Wrapped(r.out, "{"))

\* @mcp.tool("gmail.list_labels")
list_labels ==
    \E env \in AuthChoices(service), f \in FailPoints(1) :
        LET r == WithAuth(service, env, gmail_list_labels(mbox_messages, mbox_labels, f),
                          mbox_messages, mbox_labels)
        IN  Invoke("gmail.list_labels", [userId |-> "me"], r, Unwrapped(r.out))

\* @mcp.tool("gmail.create_label")
create_label ==
    \E name \in NewLabelNames, env \in AuthChoices(service), f \in FailPoints(1) :
        /\ Len(mbox_labels) < MaxLabels
        /\ LET r == WithAuth(service, env,
                             gmail_create_label(mbox_messages, mbox_labels, name, f),
                             mbox_messages, mbox_labels)
           IN  Invoke("gmail.create_label", [name |-> name], r, Unwrapped(r.out))

\* @mcp.tool("gmail.update_label")
update_label ==
    \E label_id \in LabelIdArgs, new_name \in NewLabelNames \cup {<<>>}, env \in AuthChoices(service),
       f \in FailPoints(1) :
        LET r == WithAuth(service, env,
                          gmail_update_label(mbox_messages, mbox_labels, label_id, new_name, f),
                          mbox_messages, mbox_labels)
        IN  Invoke("gmail.update_label", [label_id |-> label_id, new_name |-> new_name], r,
                   Unwrapped(r.out))

\* @mcp.tool("gmail.delete_label")
delete_label ==
    \E label_id \in LabelIdArgs, env \in AuthChoices(service), f \in FailPoints(1) :
        LET r == WithAuth(service, env,
                          gmail_delete_label(mbox_messages, mbox_labels, label_id, f),
                          mbox_messages, mbox_labels)
        IN  Invoke("gmail.delete_label", [label_id |-> label_id], r, Unwrapped(r.out))

\* @mcp.tool("gmail.delete_emails_in_label"): the second handler of that name,
\* with no try/except.
delete_emails_in_label_raw ==
    \E label_name \in LabelNameArgs, env \in AuthChoices(service) :
      \E f \in FailPoints(Len(gmail_delete_emails_in_label(mbox_messages, mbox_labels,
                                                            label_name, 0).calls)) :
        LET r == WithAuth(service, env,
                          gmail_delete_emails_in_label(mbox_messages, mbox_labels,
                                                       label_name, f),
                          mbox_messages, mbox_labels)
        IN  Invoke("gmail.delete_emails_in_label", [label_name |-> label_name], r,
                   Unwrapped(r.out))

\* @mcp.tool("gmail.list_drafts")
list_drafts == InvokeMissing("gmail.list_drafts", "list_drafts")

\* @mcp.tool("gmail.get_draft")
get_draft == InvokeMissing("gmail.get_draft", "get_draft")

\* @mcp.tool("gmail.create_draft")
create_draft == InvokeMissing("gmail.create_draft", "create_draft")

\* @mcp.tool("gmail.update_draft")
update_draft == InvokeMissing("gmail.update_draft", "update_draft")

GmailNext ==
    \/ list_emails
    \/ get_email
    \/ get_unread_emails
    \/ send_email
    \/ delete_email
    \/ delete_emails_in_label
    \/ list_labels
    \/ create_label
    \/ update_label
    \/ delete_label
    \/ delete_emails_in_label_raw
    \/ list_drafts
    \/ get_draft
    \/ create_draft
    \/ update_draft

(***************************************************************************)
(* SPECIFICATIONS                                                          *)
(***************************************************************************)

Init == CmdInit /\ ClientInit /\ BodyInit /\ GmailInit

Spec == Init /\ [][GmailNext]_vars

SpecCmd == Init /\ [][CmdNext]_vars

SpecClient == Init /\ [][ClientNext]_vars

SpecBody == Init /\ [][BodyNext]_vars

(***************************************************************************)
(* PROPERTIES                                                              *)
(***************************************************************************)

\* C3: run_command never raises past its boundary: whatever the subprocess did
\* (completed with any exit code, or raised), the tool returned a str value.
C3_NeverRaises ==
    cmd_proc # None =>
        /\ cmd_result.kind = "return"
        /\ cmd_result.value.type = "str"

\* C3's case: a launch that raised, and a completion with a non-zero exit code.
C3_Witness ==
    /\ cmd_proc # None
    /\ cmd_proc.kind = "raise"
    /\ cmd_proc.cls = "ValueError"
    /\ cmd_result = Return(Str(cmd_proc.msg))

\* C9: on completion the result is stdout when stdout is non-empty and stderr
\* otherwise: stderr shows only when stdout is empty, and the result is empty
\* when both are.
C9_StdoutElseStderr ==
    (cmd_proc # None /\ cmd_proc.kind = "completed") =>
        /\ cmd_result.kind = "return"
        /\ cmd_proc.stdout # <<>> => cmd_result.value = Str(cmd_proc.stdout)
        /\ cmd_proc.stdout = <<>> => cmd_result.value = Str(cmd_proc.stderr)
        /\ (cmd_proc.stdout = <<>> /\ cmd_proc.stderr = <<>>) => cmd_result.value = Str(<<>>)

\* C9's case: both streams non-empty, and stdout alone was returned.
C9_Witness ==
    /\ cmd_proc # None
    /\ cmd_proc.kind = "completed"
    /\ cmd_proc.stdout # <<>>
    /\ cmd_proc.stderr # <<>>
    /\ cmd_proc.stdout # cmd_proc.stderr
    /\ cmd_result = Return(Str(cmd_proc.stdout))

\* The stored messages as the last turn's read found them: everything but the
\* AI message the turn added afterwards, if its answer has come.
StoredAtRead ==
    IF chat_messages # <<>> /\ chat_messages[Len(chat_messages)].role = "ai"
    THEN SubSeq(chat_messages, 1, Len(chat_messages) - 1)
    ELSE chat_messages

\* The stored messages of the turns before the last one.
EarlierTurns == SubSeq(StoredAtRead, 1, Len(StoredAtRead) - 1)

IsSummaryMessage(m) == m.role = "system"

\* C5: once the stored messages' token estimate exceeds max_token_limit, the
\* read of history returns a strictly shorter list holding a summary message in
\* place of the oldest entries, the newest user message kept verbatim.
C5_CompactsOverCeiling ==
    (client_turns > 0 /\ NumTokens(StoredAtRead) > max_token_limit) =>
        /\ Len(client_past) < Len(StoredAtRead)
        /\ \E i \in 1..Len(client_past) : IsSummaryMessage(client_past[i])
        /\ client_past[Len(client_past)] = HumanMessage(client_query)

\* C10: the list submitted to the agent is the system message, the history of
\* the earlier turns, and the new user message, which is there once, last.
C10_QueryOnceLast ==
    client_turns > 0 =>
        client_submitted = <<AgentSystemMessage>> \o EarlierTurns
                               \o <<HumanMessage(client_query)>>

\* A leaf of type text/plain whose body has non-empty data.
PlainWithData(p) ==
    /\ "parts" \notin DOMAIN p
    /\ p.mimeType = "text/plain"
    /\ GetData(p.body) # <<>>

\* The parts of the payload at depth one (none for a single-part payload).
TopLevelParts(payload) == IF "parts" \in DOMAIN payload THEN payload.parts ELSE <<>>

\* The payload has a text/plain leaf with data at depth one.
HasTopLevelPlain(payload) ==
    \E i \in 1..Len(TopLevelParts(payload)) : PlainWithData(TopLevelParts(payload)[i])

\* The first such part.
FirstTopLevelPlain(payload) ==
    LET ps == TopLevelParts(payload)
        i == CHOOSE k \in 1..Len(ps) :
                 PlainWithData(ps[k]) /\ \A j \in 1..(k - 1) : ~PlainWithData(ps[j])
    IN  ps[i]

\* The payload has a text/plain leaf with data below depth one.
HasNestedPlain(payload) ==
    \E i \in 1..Len(TopLevelParts(payload)) :
        LET p == TopLevelParts(payload)[i]
        IN  "parts" \in DOMAIN p /\ \E j \in 1..Len(p.parts) : PlainWithData(p.parts[j])

\* `text` is what the bytes encoded in `data` spell, undecodable bytes dropped.
IsDecodedTextOf(text, data) ==
    \E bs \in SeqsUpTo(ModelBytes, MaxBytes) :
        data = B64Encode(bs) /\ text = Utf8DecodeIgnore(bs)

\* The bytes encoded in `data` hold at least one character of valid UTF-8.
HasDecodableChar(data) ==
    \E bs \in SeqsUpTo(ModelBytes, MaxBytes) :
        /\ data = B64Encode(bs)
        /\ \E i \in 1..Len(bs) :
              \/ bs[i] < 128
              \/ bs[i] >= 194 /\ bs[i] <= 223 /\ i < Len(bs)
                    /\ bs[i + 1] >= 128 /\ bs[i + 1] <= 191

\* The part _get_body should read, when there is one.
BodySource(payload) ==
    IF PlainWithData(payload) THEN payload ELSE FirstTopLevelPlain(payload)

HasBodySource(payload) == PlainWithData(payload) \/ HasTopLevelPlain(payload)

\* C7 as stated: a depth-one walk; with a text/plain source with data the body
\* is its decoded text and is non-empty; with none (HTML only, or text/plain
\* only below depth one) the body is empty.
C7_DepthOneWalk_Original ==
    body_payload # None =>
        /\ HasBodySource(body_payload) =>
              /\ IsDecodedTextOf(body_result, GetData(BodySource(body_payload).body))
              /\ body_result # <<>>
        /\ ~HasBodySource(body_payload) => body_result = <<>>

\* C7 amended: the same walk; the body is the source's decoded text, which is
\* non-empty exactly when its data holds a character of valid UTF-8.
C7_DepthOneWalk ==
    body_payload # None =>
        /\ HasBodySource(body_payload) =>
              /\ IsDecodedTextOf(body_result, GetData(BodySource(body_payload).body))
              /\ body_result # <<>> <=> HasDecodableChar(GetData(BodySource(body_payload).body))
        /\ ~HasBodySource(body_payload) => body_result = <<>>

\* C7's case: a text/plain part with data sits only below depth one, after an
\* HTML part, and the body came out empty.
C7_Witness ==
    /\ body_payload # None
    /\ HasNestedPlain(body_payload)
    /\ ~HasTopLevelPlain(body_payload)
    /\ \E i \in 1..Len(TopLevelParts(body_payload)) :
          TopLevelParts(body_payload)[i].mimeType = "text/html"
    /\ body_result = <<>>

\* The last tool invocation ran the adapter operation `name` past auth().
RanAdapter(names) ==
    /\ tool_result.tool \in names
    /\ api_log # <<>>

\* C1 as stated: over any N >= 1 adapter operations auth() is called exactly
\* once.
C1_AuthExactlyOnce_Original ==
    ops_unauth >= 1 => Len(auth_log) = 1

\* What holds of the auth() calls in every state: one per operation entered
\* with no handle, none but the last of them returned, and a handle is cached
\* exactly when the last one returned.
C1_AuthLogShape ==
    /\ Len(auth_log) = ops_unauth
    /\ \A i \in 1..(Len(auth_log) - 1) : auth_log[i] = "raise"
    /\ service # None <=> (auth_log # <<>> /\ auth_log[Len(auth_log)] = "ok")

\* C1 amended: auth() is called by each operation entered with no handle
\* cached and by no other; the auth() call that returns is the last one ever
\* made (so auth() is called exactly once when the first call returns), and
\* once a handle is cached it stays and no step calls auth() again.
C1_LazyAuthOnce ==
    /\ []C1_AuthLogShape
    /\ [][service # None => (service' = service /\ auth_log' = auth_log)]_vars

\* C1's case: two adapter operations, the first authenticated, the second ran
\* on the cached handle.
C1_Witness ==
    /\ gmail_ops >= 2
    /\ auth_log = <<"ok">>
    /\ ops_unauth = 1
    /\ service = Resource
    /\ RanAdapter({"get_email", "list_emails", "delete_email"})

\* C2: whatever a Gmail tool's adapter call raises comes back from the tool as
\* a str starting "Error: "; no Gmail tool lets an exception out.
C2_EveryToolCatches ==
    (tool_result.tool # "none" /\ tool_result.adapter.kind = "raise") =>
        /\ tool_result.out.kind = "return"
        /\ tool_result.out.value.type = "str"
        /\ tool_result.out.value.val[1] = "Error: "

\* The labels the last delete_emails_in_label saw, and the name it was given.
SeenLabels == api_log[1].response
GivenName == tool_result.args.label_name

\* The last invocation was delete_emails_in_label and its label listing returned.
DeleteInLabelListed ==
    /\ RanAdapter({"delete_emails_in_label", "gmail.delete_emails_in_label"})
    /\ api_log[1].ok

IssuedAfterListing(api) == \E i \in 2..Len(api_log) : api_log[i].api = api

\* A batchModify call comes third, after a label was resolved and the list call
\* under it returned at least one message; it names those messages.
BatchOnlyAfterMessages ==
    \A i \in 1..Len(api_log) :
        api_log[i].api = "messages.batchModify" =>
            /\ i = 3
            /\ api_log[1].api = "labels.list" /\ api_log[1].ok
            /\ api_log[2].api = "messages.list" /\ api_log[2].ok
            /\ api_log[2].response # <<>>
            /\ \E k \in 1..Len(SeenLabels) : api_log[2].args.labelIds = <<SeenLabels[k].id>>
            /\ api_log[3].args.ids = api_log[2].response

\* C4 as stated: with no existing label of that name the result is the error
\* value and neither a message list nor a batchModify call is issued.
C4_NotFound_Original ==
    /\ DeleteInLabelListed =>
          ((\A k \in 1..Len(SeenLabels) : SeenLabels[k].name # GivenName) =>
              /\ tool_result.adapter = Return(NotFoundError(GivenName))
              /\ ~IssuedAfterListing("messages.list")
              /\ ~IssuedAfterListing("messages.batchModify"))
    /\ BatchOnlyAfterMessages

\* C4 amended: the same with names compared ignoring case.
C4_NotFound ==
    /\ DeleteInLabelListed =>
          ((\A k \in 1..Len(SeenLabels) :
                LowerText(SeenLabels[k].name) # LowerText(GivenName)) =>
              /\ tool_result.adapter = Return(NotFoundError(GivenName))
              /\ Len(api_log) = 1
              /\ ~IssuedAfterListing("messages.list")
              /\ ~IssuedAfterListing("messages.batchModify"))
    /\ BatchOnlyAfterMessages

\* C4's case: a name no label has in any case gave the error value after the
\* one label listing.
C4_Witness ==
    /\ DeleteInLabelListed
    /\ GivenName = <<"N", "o">>
    /\ tool_result.adapter = Return([error |-> <<"Label '", "N", "o", "' not found">>])
    /\ Len(api_log) = 1

\* C6: get_email on the id send_email returned gives back the subject and the
\* recipient that were sent.
C6_RoundTrip ==
    ( /\ tool_result.tool = "get_email"
      /\ tool_result.adapter.kind = "return"
      /\ tool_result.args.message_id = last_sent.id ) =>
        /\ tool_result.adapter.value.subject = last_sent.subject
        /\ tool_result.adapter.value.to = last_sent.to

\* C8: list_emails returns one summary per id of its single list call, in that
\* order, at most max_results of them, each id non-empty, each after exactly
\* one metadata get of that id.
C8_OneSummaryPerListedId ==
    (tool_result.tool \in {"list_emails", "get_unread_emails"}
        /\ tool_result.adapter.kind = "return") =>
        LET emails == tool_result.adapter.value
            listed == api_log[1].response
        IN  /\ Len(emails) <= tool_result.args.max_results
            /\ api_log[1].api = "messages.list"
            /\ api_log[1].args = [q |-> tool_result.args.query,
                                  maxResults |-> tool_result.args.max_results]
            /\ Len(emails) = Len(listed)
            /\ Len(api_log) = Len(listed) + 1
            /\ \A i \in 1..Len(emails) :
                  /\ emails[i].id # ""
                  /\ emails[i].id = listed[i]
                  /\ api_log[i + 1].api = "messages.get"
                  /\ api_log[i + 1].args = [id |-> listed[i], format |-> "metadata"]

\* C8's case: two messages were listed and two summaries came back, and a cap
\* of one cut the list to one.
C8_Witness ==
    /\ tool_result.tool = "list_emails"
    /\ tool_result.adapter.kind = "return"
    /\ Len(tool_result.adapter.value) = 2
    /\ tool_result.adapter.value[1].id # tool_result.adapter.value[2].id
    /\ Len(api_log) = 3

\* Whether get_email finds the message of this id in the mailbox.
Retrievable(msgs, lbls, id) == gmail_get_email(msgs, lbls, id, 0).out.kind = "return"

\* get_email returns every message of the mailbox, those in Trash included.
AllRetrievable ==
    \A i \in 1..Len(mbox_messages) :
        Retrievable(mbox_messages, mbox_labels, mbox_messages[i].id)

\* A step keeps every message: the same id is still in the mailbox with the
\* same headers, snippet and payload, so get_email reads the same record off
\* it.
StepKeepsMessages ==
    \A i \in 1..Len(mbox_messages) :
        LET m == mbox_messages[i]
        IN  \E j \in 1..Len(mbox_messages') :
                /\ mbox_messages'[j].id = m.id
                /\ mbox_messages'[j].headers = m.headers
                /\ mbox_messages'[j].snippet = m.snippet
                /\ mbox_messages'[j].payload = m.payload

\* A delete_email step that returned left its message in Trash and gave no
\* other message a label.
StepDeleteEmailTrashes ==
    (tool_result'.tool = "delete_email" /\ tool_result'.adapter.kind = "return") =>
        \A i \in 1..Len(mbox_messages) :
            LET m == mbox_messages[i]
                after == MessageOf(mbox_messages', m.id).labelIds
            IN  IF m.id = tool_result'.args.message_id
                THEN "TRASH" \in after /\ after \subseteq m.labelIds \cup {"TRASH"}
                ELSE after = m.labelIds

\* A delete_emails_in_label step that issued its batch call added TRASH, and
\* nothing else, to exactly the listed messages.
StepDeleteInLabelAddsTrash ==
    ( /\ tool_result'.tool \in {"delete_emails_in_label", "gmail.delete_emails_in_label"}
      /\ tool_result'.adapter.kind = "return"
      /\ Len(api_log') = 3 ) =>
        \A i \in 1..Len(mbox_messages) :
            LET m == mbox_messages[i]
                after == MessageOf(mbox_messages', m.id).labelIds
            IN  IF InSeq(m.id, api_log'[2].response)
                THEN after = m.labelIds \cup {"TRASH"}
                ELSE after = m.labelIds

\* C11: no invocation of a Gmail tool removes a message from the mailbox:
\* every message stays retrievable with its content, delete_email moves its
\* message to Trash, and delete_emails_in_label only adds TRASH to the
\* messages it listed.
C11_NoMessageRemoved ==
    /\ []AllRetrievable
    /\ [][StepKeepsMessages /\ StepDeleteEmailTrashes /\ StepDeleteInLabelAddsTrash]_vars

\* C11's case: after delete_email trashed one message and
\* delete_emails_in_label trashed the other, both initial messages are in
\* Trash and get_email still returns each.
C11_Witness ==
    /\ tool_result.tool = "delete_emails_in_label"
    /\ tool_result.adapter = Return([status |-> "deleted", count |-> 1,
                                     label |-> <<"W", "o", "r", "k">>])
    /\ \A id \in {"m1", "m2"} :
          /\ HasMessage(mbox_messages, id)
          /\ "TRASH" \in MessageOf(mbox_messages, id).labelIds
          /\ Retrievable(mbox_messages, mbox_labels, id)

====
